---- MODULE Spec2Model ----
(***************************************************************************)
(* Model of the swap instruction of the cp-swap program                    *)
(* (programs/cp-swap/src/instructions/swap.rs).                            *)
(*                                                                         *)
(* One invocation of swap is a sequence of steps, one per statement group  *)
(* of the handler; pc is the handler's position.  The pool record, the two *)
(* vault balances and the fee configuration are the persistent state.      *)
(* The curve calculator, the reserve reconciler, the transfer-fee helpers  *)
(* and the token transfers live outside swap.rs and are modelled from      *)
(* their specification.                                                    *)
(*                                                                         *)
(* Integers of the program are u64/u128.  TLC's integers are 32 bits wide, *)
(* so the u64 domain is scaled to 0..U64_MAX with U64_MAX below 2^31, and  *)
(* every product is computed digit-wise so that it never leaves that       *)
(* range.                                                                  *)
(***************************************************************************)
EXTENDS Integers, Sequences, FiniteSets, TLC

-----------------------------------------------------------------------------
(* Bounds of the model *)

\* largest value of the (scaled) unsigned 64-bit domain
U64_MAX == 1073741823

\* number of swap invocations in one behaviour
MaxSwaps == 2

\* amount_in and minimum_amount_out are drawn from 0..MaxAmountIn / 0..MaxMinOut
\* (plus the amounts of the worked scenario)
MaxAmountIn == 4
MaxMinOut == 1

-----------------------------------------------------------------------------
(* Program constants *)

FEE_RATE_DENOMINATOR_VALUE == 1000000

MAX_FEE_BASIS_POINTS == 10000

\* base of the two-digit representation of a u128 product
WideBase == 1024 * 1024 * 1024

-----------------------------------------------------------------------------
(* Exact wide arithmetic *)

Min(a, b) == IF a <= b THEN a ELSE b

\* <<q, r>> with a * b = q * c + r and 0 <= r < c, never forming a * b:
\* binary long multiplication over the digits of b
RECURSIVE MulDivRemBits(_, _, _)
MulDivRemBits(a, b, c) ==
    IF b = 0 THEN <<0, 0>>
    ELSE LET h  == MulDivRemBits(a, b \div 2, c)
             q2 == 2 * h[1] + ((2 * h[2]) \div c)
             r2 == (2 * h[2]) % c
             s  == r2 + (a % c)
         IN IF b % 2 = 0 THEN <<q2, r2>>
            ELSE <<q2 + (a \div c) + (s \div c), s % c>>

MulDivRem(a, b, c) == IF a < b THEN MulDivRemBits(b, a, c) ELSE MulDivRemBits(a, b, c)

\* floor(a * b / c)
MulDivFloor(a, b, c) == MulDivRem(a, b, c)[1]

\* ceil(a * b / c)
MulDivCeil(a, b, c) ==
    LET h == MulDivRem(a, b, c) IN IF h[2] = 0 THEN h[1] ELSE h[1] + 1

\* u128::from(a).checked_mul(u128::from(b)): the product as <<high, low>>
checked_mul_u128(a, b) == MulDivRem(a, b, WideBase)

\* x >= y for two wide products
WideGeq(x, y) == x[1] > y[1] \/ (x[1] = y[1] /\ x[2] >= y[2])

-----------------------------------------------------------------------------
(* Collaborators of swap, modelled from their specification *)

\* the zero transfer-fee schedule of a mint without the fee extension
ZeroSchedule == [bps |-> 0, cap |-> 0]

\* forwardFee: the fee the mint withholds on a transfer of pre_fee_amount
get_transfer_fee(schedule, pre_fee_amount) ==
    Min(schedule.cap, MulDivCeil(pre_fee_amount, schedule.bps, MAX_FEE_BASIS_POINTS))

\* the least gross amount whose transfer leaves at least post_fee_amount
InverseGross(schedule, post_fee_amount) ==
    IF post_fee_amount = 0 THEN 0
    ELSE IF schedule.bps = MAX_FEE_BASIS_POINTS THEN post_fee_amount + schedule.cap
    ELSE Min(post_fee_amount + schedule.cap,
             MulDivCeil(post_fee_amount, MAX_FEE_BASIS_POINTS,
                        MAX_FEE_BASIS_POINTS - schedule.bps))

\* the value get_transfer_inverse_fee reports on overflow of the 64-bit domain
FeeCalculationOverflow == -1

\* inverseFee as swap uses it: the fee to add to post_fee_amount
get_transfer_inverse_fee(schedule, post_fee_amount) ==
    IF InverseGross(schedule, post_fee_amount) > U64_MAX
    THEN FeeCalculationOverflow
    ELSE InverseGross(schedule, post_fee_amount) - post_fee_amount

\* PoolState::vault_amount_without_fee: <<vault_0 net of the token-0
\* accumulators, vault_1 net of the token-1 accumulators>>; a negative
\* component stands for the failed checked subtraction
vault_amount_without_fee(p, vault_0, vault_1) ==
    << vault_0 - (p.protocol_fees_token_0 + p.fund_fees_token_0),
       vault_1 - (p.protocol_fees_token_1 + p.fund_fees_token_1) >>

NoResult ==
    [some |-> FALSE, new_swap_source_amount |-> 0, new_swap_destination_amount |-> 0,
     source_amount_swapped |-> 0, destination_amount_swapped |-> 0,
     trade_fee |-> 0, protocol_fee |-> 0, fund_fee |-> 0]

\* CurveCalculator::swap, steps 1-7 of the curve calculator
CurveCalculator_swap(source_amount, swap_source_amount, swap_destination_amount, direction, trade_fee_rate, protocol_fee_rate, fund_fee_rate) ==
    LET trade_fee    == MulDivFloor(source_amount, trade_fee_rate, FEE_RATE_DENOMINATOR_VALUE)
        protocol_fee == MulDivFloor(trade_fee, protocol_fee_rate, FEE_RATE_DENOMINATOR_VALUE)
        fund_fee     == MulDivFloor(trade_fee, fund_fee_rate, FEE_RATE_DENOMINATOR_VALUE)
        amount_in_after_fee == source_amount - trade_fee
        denominator  == swap_source_amount + amount_in_after_fee
        destination_amount_swapped ==
            MulDivFloor(swap_destination_amount, amount_in_after_fee, denominator)
        new_source   == swap_source_amount + source_amount - protocol_fee - fund_fee
    IN  IF \/ source_amount = 0
           \/ swap_destination_amount = 0
           \/ amount_in_after_fee < 0
           \/ denominator = 0
           \/ new_source < 0
        THEN NoResult
        ELSE IF destination_amount_swapped = 0 THEN NoResult
        ELSE [some |-> TRUE,
              new_swap_source_amount |-> new_source,
              new_swap_destination_amount |->
                  swap_destination_amount - destination_amount_swapped,
              source_amount_swapped |-> source_amount,
              destination_amount_swapped |-> destination_amount_swapped,
              trade_fee |-> trade_fee,
              protocol_fee |-> protocol_fee,
              fund_fee |-> fund_fee]

-----------------------------------------------------------------------------
(* State *)

VARIABLES
    pool_state,     \* the pool record: swap status bit and the four fee accumulators
    vault,          \* vault[0], vault[1]: balances of token_0_vault and token_1_vault
    amm_config,     \* trade_fee_rate, protocol_fee_rate, fund_fee_rate
    mint,           \* mint[0], mint[1]: transfer-fee schedule of each vault's mint
    pc,             \* position of the running swap invocation
    ctx,            \* its arguments: input_vault, output_vault, amount_in, minimum_amount_out
    local,          \* its local variables
    snapshot,       \* pool_state and vault when the invocation started
    outcome,        \* what the invocation returned
    cpi,            \* the transfer calls it made, in order, with their results
    nswaps          \* invocations so far

vars == <<pool_state, vault, amm_config, mint, pc, ctx, local, snapshot, outcome, cpi, nswaps>>

ZeroForOne == "ZeroForOne"
OneForZero == "OneForZero"

NoCtx == [input_vault |-> 0, output_vault |-> 0, amount_in |-> 0, minimum_amount_out |-> 0]

NoLocal ==
    [actual_amount_in |-> 0, trade_direction |-> "None",
     total_input_token_amount |-> 0, total_output_token_amount |-> 0,
     result |-> NoResult,
     input_transfer_amount |-> 0, output_transfer_amount |-> 0]

NoSnapshot == [pool_state |-> <<>>, vault |-> <<>>]

-----------------------------------------------------------------------------
(* Initial pools *)

Pool(status, pf0, ff0, pf1, ff1) ==
    [swap_enabled |-> status,
     protocol_fees_token_0 |-> pf0, fund_fees_token_0 |-> ff0,
     protocol_fees_token_1 |-> pf1, fund_fees_token_1 |-> ff1]

Rates(t, p, f) == [trade_fee_rate |-> t, protocol_fee_rate |-> p, fund_fee_rate |-> f]

Vaults(a, b) == [i \in {0, 1} |-> IF i = 0 THEN a ELSE b]

Mints(a, b) == [i \in {0, 1} |-> IF i = 0 THEN a ELSE b]

\* the worked scenario: 0.25% trade fee, 12% / 4% of it to protocol / fund
ScenarioWorld ==
    [amm_config |-> Rates(2500, 120000, 40000),
     mint       |-> Mints(ZeroSchedule, ZeroSchedule),
     pool_state |-> Pool(TRUE, 0, 0, 0, 0),
     vault      |-> Vaults(1000000, 2000000)]

\* a small pool without any fee
FreeWorld ==
    [amm_config |-> Rates(0, 0, 0),
     mint       |-> Mints(ZeroSchedule, ZeroSchedule),
     pool_state |-> Pool(TRUE, 0, 0, 0, 0),
     vault      |-> Vaults(4, 8)]

\* a small pool with a 50% trade fee split evenly between protocol and fund,
\* accrued fees on both sides and a fee-on-transfer mint for token 1
FeeWorld ==
    [amm_config |-> Rates(500000, 500000, 500000),
     mint       |-> Mints(ZeroSchedule, [bps |-> 2500, cap |-> 1]),
     pool_state |-> Pool(TRUE, 2, 2, 3, 3),
     vault      |-> Vaults(24, 36)]

\* a small pool with a 75% trade fee split 30% / 70% between protocol and fund
SkewWorld ==
    [amm_config |-> Rates(750000, 300000, 700000),
     mint       |-> Mints(ZeroSchedule, ZeroSchedule),
     pool_state |-> Pool(TRUE, 1, 0, 0, 1),
     vault      |-> Vaults(25, 37)]

\* the same pool with swapping switched off
DisabledWorld == [FeeWorld EXCEPT !.pool_state.swap_enabled = FALSE]

\* a pool whose token-0 vault and protocol-fee accumulator sit at the top of
\* the 64-bit domain
FullWorld ==
    [amm_config |-> Rates(500000, 500000, 500000),
     mint       |-> Mints(ZeroSchedule, ZeroSchedule),
     pool_state |-> Pool(TRUE, U64_MAX - 2, 0, 0, 0),
     vault      |-> Vaults(U64_MAX, 30)]

\* a pool whose two mints both withhold a transfer fee: token 0 half of the
\* amount up to 3, token 1 the whole amount up to 1
TaxWorld ==
    [amm_config |-> Rates(250000, 500000, 250000),
     mint       |-> Mints([bps |-> 5000, cap |-> 3], [bps |-> 10000, cap |-> 1]),
     pool_state |-> Pool(TRUE, 1, 1, 2, 0),
     vault      |-> Vaults(22, 33)]

\* a pool whose configuration breaks protocol_fee_rate + fund_fee_rate <=
\* denominator, so that the curve hands back a smaller product; the
\* configuration instruction rules it out, and only SpecAnyRates starts from it
MisconfiguredWorld ==
    [amm_config |-> Rates(500000, 1000000, 1000000),
     mint       |-> Mints(ZeroSchedule, ZeroSchedule),
     pool_state |-> Pool(TRUE, 2, 2, 3, 3),
     vault      |-> Vaults(24, 36)]

Worlds ==
    {ScenarioWorld, FreeWorld, FeeWorld, SkewWorld, DisabledWorld, FullWorld, TaxWorld}

\* the amounts of the worked scenario
ScenarioAmounts == {10000}

AmountsIn == (0 .. MaxAmountIn) \cup ScenarioAmounts

MinimumAmountsOut == 0 .. MaxMinOut

\* the state before the first invocation on pool w
Start(w) ==
    /\ pool_state = w.pool_state
    /\ vault = w.vault
    /\ amm_config = w.amm_config
    /\ mint = w.mint
    /\ pc = "Idle"
    /\ ctx = NoCtx
    /\ local = NoLocal
    /\ snapshot = NoSnapshot
    /\ outcome = "None"
    /\ cpi = <<>>
    /\ nswaps = 0

Init == \E w \in Worlds : Start(w)

\* Init, and also the pool whose rates break the configuration-time guarantee
InitAnyRates == \E w \in Worlds \cup {MisconfiguredWorld} : Start(w)

-----------------------------------------------------------------------------
(* Pieces of swap *)

\* mutant: the transfer fee is not taken off the amount
saturating_sub_KeepsAmount(a, b) == a

\* amount_in.saturating_sub(transfer_fee)
saturating_sub(a, b) == IF a >= b THEN a - b ELSE 0

\* the trade direction and the (total_input, total_output) handed to the curve
ReserveAmounts(input_is_token_0, input_vault_amount, output_vault_amount, p) ==
    IF input_is_token_0
    THEN LET r == vault_amount_without_fee(p, input_vault_amount, output_vault_amount)
         IN  [trade_direction |-> ZeroForOne,
              total_input_token_amount |-> r[1],
              total_output_token_amount |-> r[2]]
    ELSE LET r == vault_amount_without_fee(p, output_vault_amount, input_vault_amount)
         IN  [trade_direction |-> OneForZero,
              total_input_token_amount |-> r[1],
              total_output_token_amount |-> r[2]]

\* mutant: the guard demands a strict increase of the product
require_gte_Strict(constant_after, constant_before) ==
    ~WideGeq(constant_before, constant_after)

\* mutant: the guard lets every curve result through
require_gte_Off(constant_after, constant_before) == TRUE

\* require_gte!(constant_after, constant_before)
require_gte(constant_after, constant_before) == WideGeq(constant_after, constant_before)

\* mutant: the guard compares the gross output, forgetting the mint's fee
SlippageExceeded_Gross(amount_out, transfer_fee, minimum_amount_out) ==
    amount_out < minimum_amount_out

\* amount_received < minimum_amount_out
SlippageExceeded(amount_out, transfer_fee, minimum_amount_out) ==
    amount_out - transfer_fee < minimum_amount_out

\* mutant: the fees are credited to the accumulators of the other side
UpdateFees_OtherSide(p, direction, protocol_fee, fund_fee) ==
    IF direction = ZeroForOne
    THEN [p EXCEPT !.protocol_fees_token_1 = @ + protocol_fee,
                   !.fund_fees_token_1 = @ + fund_fee]
    ELSE [p EXCEPT !.protocol_fees_token_0 = @ + protocol_fee,
                   !.fund_fees_token_0 = @ + fund_fee]

\* mutant: the fund accumulator is credited with both fees
UpdateFees_FundGetsBoth(p, direction, protocol_fee, fund_fee) ==
    IF direction = ZeroForOne
    THEN [p EXCEPT !.protocol_fees_token_0 = @ + protocol_fee,
                   !.fund_fees_token_0 = @ + protocol_fee + fund_fee]
    ELSE [p EXCEPT !.protocol_fees_token_1 = @ + protocol_fee,
                   !.fund_fees_token_1 = @ + protocol_fee + fund_fee]

\* mutant: the accumulators wrap around the 64-bit domain instead of failing
UpdateFees_Wrapping(p, direction, protocol_fee, fund_fee) ==
    IF direction = ZeroForOne
    THEN [p EXCEPT !.protocol_fees_token_0 = (@ + protocol_fee) % (U64_MAX + 1),
                   !.fund_fees_token_0 = (@ + fund_fee) % (U64_MAX + 1)]
    ELSE [p EXCEPT !.protocol_fees_token_1 = (@ + protocol_fee) % (U64_MAX + 1),
                   !.fund_fees_token_1 = (@ + fund_fee) % (U64_MAX + 1)]

\* the pool record after the fee accumulators of the trade direction are credited
UpdateFees(p, direction, protocol_fee, fund_fee) ==
    IF direction = ZeroForOne
    THEN [p EXCEPT !.protocol_fees_token_0 = @ + protocol_fee,
                   !.fund_fees_token_0 = @ + fund_fee]
    ELSE [p EXCEPT !.protocol_fees_token_1 = @ + protocol_fee,
                   !.fund_fees_token_1 = @ + fund_fee]

\* mutant: the inverse transfer fee is left out of the amount pulled from the user
InputTransferAmount_NetOnly(source_amount_swapped, transfer_fee) ==
    source_amount_swapped

\* source_amount_swapped.checked_add(transfer_fee), before its overflow test
InputTransferAmount(source_amount_swapped, transfer_fee) ==
    source_amount_swapped + transfer_fee

\* mutant: a failed instruction keeps what it wrote
HostRollback_None == [pool_state |-> pool_state, vault |-> vault]

\* what the host restores when an instruction returns an error or panics
HostRollback == [pool_state |-> snapshot.pool_state, vault |-> snapshot.vault]

\* swap returns Err(e) (or panics): the invocation ends and its writes are undone
Abort(e) ==
    /\ pc' = "Aborted"
    /\ outcome' = e
    /\ pool_state' = HostRollback.pool_state
    /\ vault' = HostRollback.vault

-----------------------------------------------------------------------------
(* The steps of one swap invocation *)

\* the instruction is invoked with accounts that pass the Swap constraints
Call(iv, ov, amount_in, minimum_amount_out) ==
    /\ pc = "Idle"
    /\ nswaps < MaxSwaps
    /\ ctx' = [input_vault |-> iv, output_vault |-> ov,
               amount_in |-> amount_in, minimum_amount_out |-> minimum_amount_out]
    /\ snapshot' = [pool_state |-> pool_state, vault |-> vault]
    /\ nswaps' = nswaps + 1
    /\ pc' = "Entered"
    /\ UNCHANGED <<pool_state, vault, amm_config, mint, local, outcome, cpi>>

\* mutant: the status bit is not looked at
CheckStatus_Skipped ==
    /\ pc = "Entered"
    /\ pc' = "Validated"
    /\ UNCHANGED <<pool_state, vault, outcome>>
    /\ UNCHANGED <<amm_config, mint, ctx, local, snapshot, cpi, nswaps>>

CheckStatus ==
    /\ pc = "Entered"
    /\ IF ~pool_state.swap_enabled
       THEN Abort("NotApproved")
       ELSE pc' = "Validated" /\ UNCHANGED <<pool_state, vault, outcome>>
    /\ UNCHANGED <<amm_config, mint, ctx, local, snapshot, cpi, nswaps>>

StripFees ==
    /\ pc = "Validated"
    /\ LET transfer_fee == get_transfer_fee(mint[ctx.input_vault], ctx.amount_in)
       IN  local' = [local EXCEPT
                        !.actual_amount_in = saturating_sub(ctx.amount_in, transfer_fee)]
    /\ pc' = "FeesStripped"
    /\ UNCHANGED <<pool_state, vault, amm_config, mint, ctx, snapshot, outcome, cpi, nswaps>>

Reconcile ==
    /\ pc = "FeesStripped"
    /\ LET r == ReserveAmounts(ctx.input_vault = 0, vault[ctx.input_vault],
                               vault[ctx.output_vault], pool_state)
       IN  IF r.total_input_token_amount < 0 \/ r.total_output_token_amount < 0
           THEN Abort("Panic") /\ UNCHANGED local
           ELSE /\ local' = [local EXCEPT
                       !.trade_direction = r.trade_direction,
                       !.total_input_token_amount = r.total_input_token_amount,
                       !.total_output_token_amount = r.total_output_token_amount]
                /\ pc' = "Reconciled"
                /\ UNCHANGED <<pool_state, vault, outcome>>
    /\ UNCHANGED <<amm_config, mint, ctx, snapshot, cpi, nswaps>>

\* the rest of the curve step once CurveCalculator::swap has returned res
CurveReturns(res) ==
    /\ pc = "Reconciled"
    /\ IF ~res.some
       THEN Abort("ZeroTradingTokens") /\ UNCHANGED local
       ELSE /\ local' = [local EXCEPT !.result = res]
            /\ pc' = "Curved"
            /\ UNCHANGED <<pool_state, vault, outcome>>
    /\ UNCHANGED <<amm_config, mint, ctx, snapshot, cpi, nswaps>>

\* mutant: the two reserves are handed to the curve in the wrong order
Curve_ReservesSwapped ==
    CurveReturns(CurveCalculator_swap(local.actual_amount_in,
                                      local.total_output_token_amount,
                                      local.total_input_token_amount,
                                      local.trade_direction,
                                      amm_config.trade_fee_rate,
                                      amm_config.protocol_fee_rate,
                                      amm_config.fund_fee_rate))

Curve ==
    CurveReturns(CurveCalculator_swap(local.actual_amount_in,
                                      local.total_input_token_amount,
                                      local.total_output_token_amount,
                                      local.trade_direction,
                                      amm_config.trade_fee_rate,
                                      amm_config.protocol_fee_rate,
                                      amm_config.fund_fee_rate))

constant_before ==
    checked_mul_u128(local.total_input_token_amount, local.total_output_token_amount)

constant_after ==
    checked_mul_u128(local.result.new_swap_source_amount,
                     local.result.new_swap_destination_amount)

InvariantGuard ==
    /\ pc = "Curved"
    /\ IF ~require_gte(constant_after, constant_before)
       THEN Abort("InvariantViolation")
       ELSE pc' = "InvariantChecked" /\ UNCHANGED <<pool_state, vault, outcome>>
    /\ UNCHANGED <<amm_config, mint, ctx, local, snapshot, cpi, nswaps>>

SizeInputTransfer ==
    /\ pc = "InvariantChecked"
    /\ LET source_amount_swapped == local.result.source_amount_swapped
           transfer_fee == get_transfer_inverse_fee(mint[ctx.input_vault],
                                                    source_amount_swapped)
       IN  IF source_amount_swapped > U64_MAX
           THEN Abort("Panic") /\ UNCHANGED local
           ELSE IF transfer_fee = FeeCalculationOverflow
           THEN Abort("FeeCalculationOverflow") /\ UNCHANGED local
           ELSE IF InputTransferAmount(source_amount_swapped, transfer_fee) > U64_MAX
           THEN Abort("Panic") /\ UNCHANGED local
           ELSE /\ local' = [local EXCEPT
                       !.input_transfer_amount =
                           InputTransferAmount(source_amount_swapped, transfer_fee)]
                /\ pc' = "InputSized"
                /\ UNCHANGED <<pool_state, vault, outcome>>
    /\ UNCHANGED <<amm_config, mint, ctx, snapshot, cpi, nswaps>>

\* mutant: the pool pays out the caller's minimum instead of the curve's output
SlippageGuard_PaysMinimum ==
    /\ pc = "InputSized"
    /\ LET amount_out == local.result.destination_amount_swapped
           transfer_fee == get_transfer_fee(mint[ctx.output_vault], amount_out)
       IN  IF amount_out > U64_MAX \/ transfer_fee > amount_out
           THEN Abort("Panic") /\ UNCHANGED local
           ELSE IF SlippageExceeded(amount_out, transfer_fee, ctx.minimum_amount_out)
           THEN Abort("ExceededSlippage") /\ UNCHANGED local
           ELSE /\ local' = [local EXCEPT
                       !.output_transfer_amount = ctx.minimum_amount_out]
                /\ pc' = "SlippageChecked"
                /\ UNCHANGED <<pool_state, vault, outcome>>
    /\ UNCHANGED <<amm_config, mint, ctx, snapshot, cpi, nswaps>>

SlippageGuard ==
    /\ pc = "InputSized"
    /\ LET amount_out == local.result.destination_amount_swapped
           transfer_fee == get_transfer_fee(mint[ctx.output_vault], amount_out)
       IN  IF amount_out > U64_MAX \/ transfer_fee > amount_out
           THEN Abort("Panic") /\ UNCHANGED local
           ELSE IF SlippageExceeded(amount_out, transfer_fee, ctx.minimum_amount_out)
           THEN Abort("ExceededSlippage") /\ UNCHANGED local
           ELSE /\ local' = [local EXCEPT !.output_transfer_amount = amount_out]
                /\ pc' = "SlippageChecked"
                /\ UNCHANGED <<pool_state, vault, outcome>>
    /\ UNCHANGED <<amm_config, mint, ctx, snapshot, cpi, nswaps>>

UpdateLedger ==
    /\ pc = "SlippageChecked"
    /\ LET protocol_fee == local.result.protocol_fee
           fund_fee == local.result.fund_fee
           p == UpdateFees(pool_state, local.trade_direction, protocol_fee, fund_fee)
       IN  IF \/ protocol_fee > U64_MAX
              \/ fund_fee > U64_MAX
              \/ p.protocol_fees_token_0 > U64_MAX
              \/ p.fund_fees_token_0 > U64_MAX
              \/ p.protocol_fees_token_1 > U64_MAX
              \/ p.fund_fees_token_1 > U64_MAX
           THEN Abort("Panic")
           ELSE /\ pool_state' = p
                /\ pc' = "LedgerUpdated"
                /\ UNCHANGED <<vault, outcome>>
    /\ UNCHANGED <<amm_config, mint, ctx, local, snapshot, cpi, nswaps>>

\* mutant: the result of the transfer-in call is dropped instead of propagated
TransferIn_ErrorIgnored ==
    /\ pc = "LedgerUpdated"
    /\ \E external_ok \in BOOLEAN :
         LET amount == local.input_transfer_amount
             received == amount - get_transfer_fee(mint[ctx.input_vault], amount)
             ok == external_ok /\ vault[ctx.input_vault] + received <= U64_MAX
         IN  /\ cpi' = Append(cpi, [call |-> "transfer_in", amount |-> amount,
                                    received |-> received, ok |-> ok])
             /\ vault' = IF ok THEN [vault EXCEPT ![ctx.input_vault] = @ + received]
                               ELSE vault
             /\ pc' = "TransferredIn"
             /\ UNCHANGED <<pool_state, outcome>>
    /\ UNCHANGED <<amm_config, mint, ctx, local, snapshot, nswaps>>

\* transfer_from_user_to_pool_vault: the mint withholds its fee from what
\* the vault receives; the call fails for external reasons or when the
\* vault balance would leave the 64-bit domain
TransferIn ==
    /\ pc = "LedgerUpdated"
    /\ \E external_ok \in BOOLEAN :
         LET amount == local.input_transfer_amount
             received == amount - get_transfer_fee(mint[ctx.input_vault], amount)
             ok == external_ok /\ vault[ctx.input_vault] + received <= U64_MAX
         IN  /\ cpi' = Append(cpi, [call |-> "transfer_in", amount |-> amount,
                                    received |-> received, ok |-> ok])
             /\ IF ok
                THEN /\ vault' = [vault EXCEPT ![ctx.input_vault] = @ + received]
                     /\ pc' = "TransferredIn"
                     /\ UNCHANGED <<pool_state, outcome>>
                ELSE Abort("TransferError")
    /\ UNCHANGED <<amm_config, mint, ctx, local, snapshot, nswaps>>

\* mutant: the result of the transfer-out call is dropped instead of propagated
TransferOut_ErrorIgnored ==
    /\ pc = "TransferredIn"
    /\ \E external_ok \in BOOLEAN :
         LET amount == local.output_transfer_amount
             received == amount - get_transfer_fee(mint[ctx.output_vault], amount)
             ok == external_ok /\ vault[ctx.output_vault] >= amount
         IN  /\ cpi' = Append(cpi, [call |-> "transfer_out", amount |-> amount,
                                    received |-> received, ok |-> ok])
             /\ vault' = IF ok THEN [vault EXCEPT ![ctx.output_vault] = @ - amount]
                               ELSE vault
             /\ pc' = "Done"
             /\ outcome' = "Ok"
             /\ UNCHANGED pool_state
    /\ UNCHANGED <<amm_config, mint, ctx, local, snapshot, nswaps>>

\* transfer_from_pool_vault_to_user: fails for external reasons or when the
\* vault holds less than the amount
TransferOut ==
    /\ pc = "TransferredIn"
    /\ \E external_ok \in BOOLEAN :
         LET amount == local.output_transfer_amount
             received == amount - get_transfer_fee(mint[ctx.output_vault], amount)
             ok == external_ok /\ vault[ctx.output_vault] >= amount
         IN  /\ cpi' = Append(cpi, [call |-> "transfer_out", amount |-> amount,
                                    received |-> received, ok |-> ok])
             /\ IF ok
                THEN /\ vault' = [vault EXCEPT ![ctx.output_vault] = @ - amount]
                     /\ pc' = "Done"
                     /\ outcome' = "Ok"
                     /\ UNCHANGED pool_state
                ELSE Abort("TransferError")
    /\ UNCHANGED <<amm_config, mint, ctx, local, snapshot, nswaps>>

\* the invocation is over; the next one starts from the committed state
Return ==
    /\ pc \in {"Done", "Aborted"}
    /\ pc' = "Idle"
    /\ ctx' = NoCtx
    /\ local' = NoLocal
    /\ snapshot' = NoSnapshot
    /\ outcome' = "None"
    /\ cpi' = <<>>
    /\ UNCHANGED <<pool_state, vault, amm_config, mint, nswaps>>

Next ==
    \/ \E iv \in {0, 1}, ov \in {0, 1}, a \in AmountsIn, m \in MinimumAmountsOut :
          Call(iv, ov, a, m)
    \/ CheckStatus
    \/ StripFees
    \/ Reconcile
    \/ Curve
    \/ InvariantGuard
    \/ SizeInputTransfer
    \/ SlippageGuard
    \/ UpdateLedger
    \/ TransferIn
    \/ TransferOut
    \/ Return

Spec == Init /\ [][Next]_vars

\* the same program started from any pool, the misconfigured one included
SpecAnyRates == InitAnyRates /\ [][Next]_vars

-----------------------------------------------------------------------------
(* Vocabulary of the properties *)

Finished == pc \in {"Done", "Aborted"}

RatesValid ==
    /\ amm_config.protocol_fee_rate + amm_config.fund_fee_rate <= FEE_RATE_DENOMINATOR_VALUE
    /\ amm_config.trade_fee_rate <= FEE_RATE_DENOMINATOR_VALUE

\* the curve returned a result in the running invocation
HasResult == local.result.some

Accumulators(p) ==
    <<p.protocol_fees_token_0, p.fund_fees_token_0,
      p.protocol_fees_token_1, p.fund_fees_token_1>>

\* raw balance of vault i net of the accumulators of token i
NetOfFees(p, v, i) ==
    IF i = 0 THEN v[0] - (p.protocol_fees_token_0 + p.fund_fees_token_0)
             ELSE v[1] - (p.protocol_fees_token_1 + p.fund_fees_token_1)

\* what the user receives of the curve's output after the output mint's fee
NetReceived ==
    local.result.destination_amount_swapped
      - get_transfer_fee(mint[ctx.output_vault], local.result.destination_amount_swapped)

-----------------------------------------------------------------------------
(* C1 *)

\* C1: for every swap, in either direction, that gets a result from the curve
\* under valid rates, new_source * new_destination >= total_input * total_output
\* as 128-bit products, and the invariant guard never rejects the result.
C1_ProductNeverDecreases ==
    RatesValid =>
        /\ HasResult => WideGeq(constant_after, constant_before)
        /\ outcome # "InvariantViolation"

\* a OneForZero swap with non-zero protocol and fund fees has passed the guard
C1_Witness ==
    /\ pc = "InvariantChecked"
    /\ local.trade_direction = OneForZero
    /\ local.result.protocol_fee > 0
    /\ local.result.fund_fee > 0

-----------------------------------------------------------------------------
(* C2 *)

\* C2: a swap that fails at any step leaves the four fee accumulators and both
\* vault balances as they were before the call; no transfer it made stays in
\* effect, and unless the failure is that of a transfer no transfer was called.
C2_FailureIsAtomic ==
    pc = "Aborted" =>
        /\ outcome \in {"NotApproved", "ZeroTradingTokens", "InvariantViolation",
                        "ExceededSlippage", "FeeCalculationOverflow", "Panic",
                        "TransferError"}
        /\ pool_state = snapshot.pool_state
        /\ vault = snapshot.vault
        /\ outcome # "TransferError" => cpi = <<>>

\* transfer-out failed after the ledger was credited and transfer-in had moved tokens
C2_Witness ==
    /\ pc = "Aborted"
    /\ outcome = "TransferError"
    /\ Len(cpi) = 2
    /\ cpi[1].ok /\ cpi[1].received > 0
    /\ local.result.protocol_fee + local.result.fund_fee > 0

-----------------------------------------------------------------------------
(* C3 *)

\* C3: in both trade directions the total_input handed to the curve is the
\* input vault's balance net of the input asset's accumulators and total_output
\* the output vault's balance net of the output asset's accumulators (stated
\* for calls whose input and output vault are the two vaults of the pool).
C3_ReservesFollowDirection ==
    (pc = "Reconciled" /\ ctx.input_vault # ctx.output_vault) =>
        /\ local.total_input_token_amount = NetOfFees(pool_state, vault, ctx.input_vault)
        /\ local.total_output_token_amount = NetOfFees(pool_state, vault, ctx.output_vault)

-----------------------------------------------------------------------------
(* C4 *)

\* C4: a swap that passed the status check, the curve and the invariant guard
\* fails with ExceededSlippage exactly when destination_amount_swapped less the
\* output mint's fee is below minimum_amount_out; then ledger and vaults are as
\* before the call and no transfer was called; a successful swap delivers at
\* least minimum_amount_out.
C4_SlippageGuard ==
    /\ (Finished /\ HasResult /\ outcome # "InvariantViolation") =>
          (outcome = "ExceededSlippage" <=> NetReceived < ctx.minimum_amount_out)
    /\ outcome = "ExceededSlippage" =>
          /\ HasResult
          /\ pool_state = snapshot.pool_state
          /\ vault = snapshot.vault
          /\ cpi = <<>>
    /\ pc = "Done" =>
          /\ cpi[2].call = "transfer_out" /\ cpi[2].ok
          /\ cpi[2].received >= ctx.minimum_amount_out

\* the gross output covers the minimum and only the output mint's fee makes it fail
C4_Witness ==
    /\ pc = "Aborted"
    /\ outcome = "ExceededSlippage"
    /\ local.result.destination_amount_swapped >= ctx.minimum_amount_out

-----------------------------------------------------------------------------
(* C5 *)

\* C5: a successful swap adds exactly the result's protocol_fee and fund_fee to
\* the accumulators of the input asset (token 0 for ZeroForOne, token 1 for
\* OneForZero) and leaves the accumulators of the other asset unchanged.
C5_LedgerCreditsInputSide ==
    pc = "Done" =>
        /\ local.trade_direction = (IF ctx.input_vault = 0 THEN ZeroForOne ELSE OneForZero)
        /\ local.trade_direction = ZeroForOne =>
              Accumulators(pool_state) =
                  <<snapshot.pool_state.protocol_fees_token_0 + local.result.protocol_fee,
                    snapshot.pool_state.fund_fees_token_0 + local.result.fund_fee,
                    snapshot.pool_state.protocol_fees_token_1,
                    snapshot.pool_state.fund_fees_token_1>>
        /\ local.trade_direction = OneForZero =>
              Accumulators(pool_state) =
                  <<snapshot.pool_state.protocol_fees_token_0,
                    snapshot.pool_state.fund_fees_token_0,
                    snapshot.pool_state.protocol_fees_token_1 + local.result.protocol_fee,
                    snapshot.pool_state.fund_fees_token_1 + local.result.fund_fee>>

\* a successful OneForZero swap with distinct non-zero protocol and fund fees
C5_Witness ==
    /\ pc = "Done"
    /\ local.trade_direction = OneForZero
    /\ local.result.protocol_fee > local.result.fund_fee
    /\ local.result.fund_fee > 0

-----------------------------------------------------------------------------
(* C6 *)

\* the worked scenario: the rates, zero-fee mints, net reserves and arguments
Scenario ==
    /\ amm_config = Rates(2500, 120000, 40000)
    /\ mint[0] = ZeroSchedule /\ mint[1] = ZeroSchedule
    /\ local.total_input_token_amount = 1000000
    /\ local.total_output_token_amount = 2000000
    /\ ctx.amount_in = 10000
    /\ ctx.minimum_amount_out = 1

\* the swap of the scenario ends well unless an external transfer fails
ScenarioSucceeds ==
    Finished => \/ outcome = "Ok"
                \/ outcome = "TransferError" /\ \E i \in 1 .. Len(cpi) : ~cpi[i].ok

ScenarioFees ==
    /\ HasResult
    /\ local.result.trade_fee = 25
    /\ local.result.source_amount_swapped - local.result.trade_fee = 9975
    /\ local.result.protocol_fee = 3
    /\ local.result.fund_fee = 1
    /\ local.result.new_swap_source_amount = 1009996

\* C6 as claimed: in the scenario the swap succeeds with trade fee 25, amount
\* after fee 9,975, destination amount 19,753, protocol fee 3, fund fee 1, new
\* source reserve 1,009,996 and new destination reserve 1,980,247.
C6_ScenarioAsClaimed ==
    (Scenario /\ pc # "Reconciled") =>
        /\ ScenarioSucceeds
        /\ ScenarioFees
        /\ local.result.destination_amount_swapped = 19753
        /\ local.result.new_swap_destination_amount = 1980247

\* C6 amended: as claimed, but the destination amount is
\* floor(2,000,000 * 9,975 / 1,009,975) = 19,752 and the new destination
\* reserve 1,980,248.
C6_Scenario ==
    (Scenario /\ pc # "Reconciled") =>
        /\ ScenarioSucceeds
        /\ ScenarioFees
        /\ local.result.destination_amount_swapped = 19752
        /\ local.result.new_swap_destination_amount = 1980248

\* the swap of the scenario has run to its end
C6_Witness == Scenario /\ pc = "Done"

-----------------------------------------------------------------------------
(* C7 *)

SumOf(q) == q[1] + q[2] + q[3] + q[4]

\* C7: under valid rates every curve result has protocol_fee + fund_fee <=
\* trade_fee <= actual_amount_in, and what one successful swap credits to the
\* fee ledger is at most its trade fee.
C7_FeesCarvedFromTradeFee ==
    /\ (RatesValid /\ HasResult) =>
          /\ local.result.protocol_fee + local.result.fund_fee <= local.result.trade_fee
          /\ local.result.trade_fee <= local.actual_amount_in
    /\ (RatesValid /\ pc = "Done") =>
          SumOf(Accumulators(pool_state)) - SumOf(Accumulators(snapshot.pool_state))
              <= local.result.trade_fee

\* protocol and fund share use up the whole, non-zero, trade fee
C7_Witness ==
    /\ pc = "Done"
    /\ local.result.trade_fee > 0
    /\ local.result.protocol_fee + local.result.fund_fee = local.result.trade_fee

-----------------------------------------------------------------------------
(* C8 *)

\* the input mint's fee on amount_in leaves nothing (amount_in = 0 included)
NothingLeftOfInput ==
    get_transfer_fee(mint[ctx.input_vault], ctx.amount_in) >= ctx.amount_in

NothingChanged ==
    /\ pool_state = snapshot.pool_state
    /\ vault = snapshot.vault
    /\ cpi = <<>>

\* the reserve reconciler's checked subtraction fails on the vault amounts
\* the invocation reads
ReconcilerUnderflows ==
    LET r == ReserveAmounts(ctx.input_vault = 0, snapshot.vault[ctx.input_vault],
                            snapshot.vault[ctx.output_vault], snapshot.pool_state)
    IN  r.total_input_token_amount < 0 \/ r.total_output_token_amount < 0

\* C8 as claimed: a swap with amount_in = 0, or whose input-side transfer fee
\* leaves actual_amount_in = 0, fails with ZeroTradingTokens, changes no fee
\* accumulator and calls no transfer (stated for calls whose input and output
\* vault are the two vaults of the pool).
C8_ZeroInputAsClaimed ==
    (Finished /\ ctx.input_vault # ctx.output_vault
              /\ (ctx.amount_in = 0 \/ NothingLeftOfInput)) =>
        outcome = "ZeroTradingTokens" /\ NothingChanged

\* C8 amended: such a swap fails, changes no fee accumulator and calls no
\* transfer; the failure is NotApproved when the swap status bit is off, a
\* panic when the reserve reconciler's checked subtraction underflows, and
\* ZeroTradingTokens in every other case.
C8_ZeroInput ==
    (Finished /\ (ctx.amount_in = 0 \/ NothingLeftOfInput)) =>
        /\ outcome = (IF ~snapshot.pool_state.swap_enabled THEN "NotApproved"
                      ELSE IF ReconcilerUnderflows THEN "Panic"
                      ELSE "ZeroTradingTokens")
        /\ NothingChanged

\* a non-zero amount_in eaten whole by the input mint's transfer fee
C8_Witness ==
    /\ pc = "Aborted"
    /\ outcome = "ZeroTradingTokens"
    /\ ctx.amount_in > 0
    /\ NothingLeftOfInput

-----------------------------------------------------------------------------
(* C9 *)

\* C9: no successful swap, in any sequence of swaps on one pool, returns a
\* result whose new destination reserve is 0.
C9_NoSwapDrainsDestination ==
    pc = "Done" => local.result.new_swap_destination_amount > 0

-----------------------------------------------------------------------------
(* C10 *)

TransferFailed == \E i \in 1 .. Len(cpi) : ~cpi[i].ok

\* C10: if transfer-in or transfer-out fails, the swap fails with the transfer
\* error and the four fee accumulators hold their values from before the call.
C10_TransferFailureAborts ==
    (Finished /\ TransferFailed) =>
        /\ outcome = "TransferError"
        /\ Accumulators(pool_state) = Accumulators(snapshot.pool_state)

\* transfer-in failed after the ledger step had credited non-zero fees
C10_Witness ==
    /\ pc = "Aborted"
    /\ Len(cpi) = 1 /\ ~cpi[1].ok
    /\ local.result.protocol_fee > 0

-----------------------------------------------------------------------------
(* C11 *)

\* C11: on a pool whose swap-enabled status bit is off, an invocation with any
\* amount_in and any minimum_amount_out gets no further than the status check
\* and ends with NotApproved: no fee was computed, the ledger and the vaults
\* are as before the call and no transfer was called.
C11_DisabledPoolRefuses ==
    (pc # "Idle" /\ ~snapshot.pool_state.swap_enabled) =>
        /\ pc \in {"Entered", "Aborted"}
        /\ pc = "Aborted" => outcome = "NotApproved"
        /\ local = NoLocal
        /\ NothingChanged

\* a disabled pool has refused a swap with amount_in > 0 and minimum_amount_out > 0
C11_Witness ==
    /\ pc = "Aborted"
    /\ outcome = "NotApproved"
    /\ ctx.amount_in > 0
    /\ ctx.minimum_amount_out > 0

-----------------------------------------------------------------------------
(* C12 *)

BothMintsFree == mint[0] = ZeroSchedule /\ mint[1] = ZeroSchedule

\* C12: when both mints have the zero fee schedule, a successful swap has
\* actual_amount_in = amount_in, calls transfer-in with exactly amount_in and
\* transfer-out with exactly destination_amount_swapped, and both move the
\* whole amount.
C12_FreeMintsMoveExactAmounts ==
    (pc = "Done" /\ BothMintsFree) =>
        /\ local.actual_amount_in = ctx.amount_in
        /\ local.input_transfer_amount = ctx.amount_in
        /\ Len(cpi) = 2
        /\ cpi[1] = [call |-> "transfer_in", amount |-> ctx.amount_in,
                     received |-> ctx.amount_in, ok |-> TRUE]
        /\ cpi[2] = [call |-> "transfer_out",
                     amount |-> local.result.destination_amount_swapped,
                     received |-> local.result.destination_amount_swapped,
                     ok |-> TRUE]

\* a swap between fee-free mints succeeded, paying a trade fee and more than
\* the caller's minimum
C12_Witness ==
    /\ pc = "Done"
    /\ BothMintsFree
    /\ ctx.input_vault # ctx.output_vault
    /\ local.result.trade_fee > 0
    /\ local.result.destination_amount_swapped > ctx.minimum_amount_out
    /\ ctx.minimum_amount_out > 0

-----------------------------------------------------------------------------
(* C13 *)

\* what the running invocation's curve result adds to each accumulator
Credits ==
    IF local.trade_direction = ZeroForOne
    THEN <<local.result.protocol_fee, local.result.fund_fee, 0, 0>>
    ELSE <<0, 0, local.result.protocol_fee, local.result.fund_fee>>

\* crediting the curve result to the accumulators of before the call would
\* take one of them out of the 64-bit domain
CreditOverflows ==
    \E i \in 1 .. 4 : Accumulators(snapshot.pool_state)[i] + Credits[i] > U64_MAX

\* C13: each of the four accumulators stays in the 64-bit domain and, during
\* and after every invocation, successful or failed, is at least what it was
\* before the call; a swap whose credit would exceed the domain fails and
\* leaves the ledger as it was instead of wrapping.
C13_AccumulatorsOnlyGrow ==
    /\ \A i \in 1 .. 4 : Accumulators(pool_state)[i] \in 0 .. U64_MAX
    /\ pc # "Idle" =>
          \A i \in 1 .. 4 :
              Accumulators(pool_state)[i] >= Accumulators(snapshot.pool_state)[i]
    /\ (HasResult /\ CreditOverflows) =>
          /\ pc \notin {"LedgerUpdated", "TransferredIn", "Done"}
          /\ pool_state = snapshot.pool_state

\* the ledger step panicked on a credit that leaves the 64-bit domain
C13_Witness ==
    /\ pc = "Aborted"
    /\ outcome = "Panic"
    /\ HasResult
    /\ local.output_transfer_amount > 0
    /\ CreditOverflows

-----------------------------------------------------------------------------
(* C14 *)

\* the invariant guard has compared the 128-bit products and let the result pass
GuardPassed == HasResult /\ WideGeq(constant_after, constant_before)

\* the running invocation has written to the fee ledger
LedgerTouched ==
    pc # "Idle" /\ Accumulators(pool_state) # Accumulators(snapshot.pool_state)

\* C14: an invocation is past the invariant guard only with a curve result
\* whose product after the swap is >= the product before it, and it writes to
\* the fee ledger only from the ledger step on, which lies behind the guard;
\* a curve result with a smaller product gets no further than the guard, ends
\* with InvariantViolation, and the ledger is never written.
C14_LedgerAfterGuard ==
    /\ pc \in {"InvariantChecked", "InputSized", "SlippageChecked",
               "LedgerUpdated", "TransferredIn", "Done"} => GuardPassed
    /\ LedgerTouched => pc \in {"LedgerUpdated", "TransferredIn", "Done"}
    /\ (HasResult /\ ~WideGeq(constant_after, constant_before)) =>
          /\ pc \in {"Curved", "Aborted"}
          /\ pc = "Aborted" => outcome = "InvariantViolation"
          /\ ~LedgerTouched

\* the guard has rejected a curve result that carried non-zero fees
C14_Witness ==
    /\ pc = "Aborted"
    /\ outcome = "InvariantViolation"
    /\ local.result.protocol_fee + local.result.fund_fee > 0
    /\ ~WideGeq(constant_after, constant_before)

-----------------------------------------------------------------------------
(* C15 *)

\* C15: no transfer is called before the slippage guard has passed (and the
\* ledger step behind it has run); the first transfer called is transfer-in,
\* the second and last is transfer-out, and transfer-out is called only
\* after transfer-in succeeded.
C15_TransfersInOrder ==
    /\ Len(cpi) <= 2
    /\ pc \in {"Idle", "Entered", "Validated", "FeesStripped", "Reconciled",
               "Curved", "InvariantChecked", "InputSized", "SlippageChecked",
               "LedgerUpdated"} => cpi = <<>>
    /\ cpi # <<>> =>
          /\ HasResult
          /\ NetReceived >= ctx.minimum_amount_out
          /\ local.output_transfer_amount = local.result.destination_amount_swapped
          /\ cpi[1].call = "transfer_in"
    /\ Len(cpi) = 2 =>
          /\ cpi[2].call = "transfer_out"
          /\ cpi[1].ok

\* both transfers were called, in a swap with a minimum and a fee on the output
C15_Witness ==
    /\ pc = "Done"
    /\ Len(cpi) = 2
    /\ ctx.minimum_amount_out > 0
    /\ get_transfer_fee(mint[ctx.output_vault],
                        local.result.destination_amount_swapped) > 0

-----------------------------------------------------------------------------
(* C16 *)

\* the steps behind the sizing of the input transfer
InputSizedSteps == {"InputSized", "SlippageChecked", "LedgerUpdated", "TransferredIn", "Done"}

\* C16: whatever the input mint's fee schedule, once the input transfer is
\* sized its gross amount G is actual_amount_in plus the inverse fee of
\* actual_amount_in, lies in the 64-bit domain (a larger one fails the swap)
\* and satisfies G - forward fee of G >= actual_amount_in; the vault of a
\* successful swap has received at least actual_amount_in.
C16_GrossCoversNet ==
    /\ pc \in InputSizedSteps =>
          /\ local.input_transfer_amount =
                 local.actual_amount_in
                   + get_transfer_inverse_fee(mint[ctx.input_vault], local.actual_amount_in)
          /\ local.input_transfer_amount <= U64_MAX
          /\ local.input_transfer_amount
               - get_transfer_fee(mint[ctx.input_vault], local.input_transfer_amount)
               >= local.actual_amount_in
    /\ pc = "Done" => cpi[1].received >= local.actual_amount_in

\* a swap succeeded whose input mint withheld a fee from the transfer-in
C16_Witness ==
    /\ pc = "Done"
    /\ local.input_transfer_amount > local.actual_amount_in
    /\ cpi[1].received < cpi[1].amount

-----------------------------------------------------------------------------
(* C17 *)

\* on each side the accumulators sum to at most the raw vault balance
AccumulatorsWithinVaults ==
    NetOfFees(pool_state, vault, 0) >= 0 /\ NetOfFees(pool_state, vault, 1) >= 0

\* C17: from a pool where, on each side, the protocol and fund accumulators
\* sum to at most the raw vault balance, every successful swap between the
\* two pool vaults, in either direction, ends with each side's sum still at
\* most its raw vault balance, and the reconciler's checked subtraction does
\* not fail in any such swap of the sequence.
C17_AccumulatorsWithinVaults ==
    ctx.input_vault # ctx.output_vault =>
        /\ pc = "Done" => AccumulatorsWithinVaults
        /\ (Finished /\ snapshot.pool_state.swap_enabled) => ~ReconcilerUnderflows

-----------------------------------------------------------------------------
(* C18 *)

\* C18: whatever the input mint's fee schedule, the amount of the transfer-in
\* call never exceeds the amount_in the caller asked for.
C18_PullsAtMostAmountIn ==
    /\ pc \in InputSizedSteps => local.input_transfer_amount <= ctx.amount_in
    /\ cpi # <<>> => cpi[1].amount <= ctx.amount_in

\* a successful swap pulled less than amount_in from the user of a fee-bearing mint
C18_Witness ==
    /\ pc = "Done"
    /\ get_transfer_fee(mint[ctx.input_vault], ctx.amount_in) > 0
    /\ cpi[1].amount < ctx.amount_in

-----------------------------------------------------------------------------
(* C19 *)

\* CurveCalculator::swap was called in the running invocation
ReachedCurve == HasResult \/ outcome = "ZeroTradingTokens"

\* C19: every invocation that reaches the curve names the two distinct pool
\* vaults, token_0_vault as input and token_1_vault as output when the
\* direction is ZeroForOne and the reverse when it is OneForZero; an
\* invocation naming one pool vault as both input and output never reaches
\* the curve.
C19_VaultsDistinct ==
    ReachedCurve =>
        /\ ctx.input_vault # ctx.output_vault
        /\ local.trade_direction = ZeroForOne =>
              ctx.input_vault = 0 /\ ctx.output_vault = 1
        /\ local.trade_direction = OneForZero =>
              ctx.input_vault = 1 /\ ctx.output_vault = 0

====
